---------------------------- MODULE Spec2Model ----------------------------
(***************************************************************************)
(* Intelligent Data Room (simplview): the browser client (App, FileUpload, *)
(* ChatInterface, ChartDisplay, apiClient) and the service it talks to.    *)
(*                                                                         *)
(* The client is modelled from the TypeScript sources.  The service        *)
(* (backend/app) is modelled from its written contract: session store,     *)
(* planner, executor, response assembler and the upload endpoint.          *)
(*                                                                         *)
(* Strings the code inspects character by character (file names, the chat  *)
(* input) are sequences of one-character strings; strings the code only    *)
(* passes around are TLA+ strings.                                         *)
(***************************************************************************)
EXTENDS Integers, Sequences, FiniteSets, TLC

VARIABLES
    session,      \* App: useState<SessionData | null>
    chartData,    \* App: useState<any>(null)
    chartType,    \* App: useState<string>('none')
    fu,           \* FileUpload state: isUploading, error, selectedFile
    fuInst,       \* which mount of FileUpload is the current one
    uploads,      \* apiClient.uploadFile calls awaiting their result
    ci,           \* ChatInterface state: messages, input, isLoading
    ciInst,       \* which mount of ChatInterface is the current one
    chats,        \* apiClient.chat calls awaiting their result
    srvSessions,  \* session ids the service has issued
    last,         \* the handler that ran last and the calls it made
    store,        \* service: Session Store, id -> dataset and history
    reply,        \* service: what the last service call answered
    props,        \* ChartDisplay: its props {data, type}
    view          \* ChartDisplay: what the last render produced

vars == <<session, chartData, chartType, fu, fuInst, uploads, ci, ciInst,
          chats, srvSessions, last, store, reply, props, view>>

appVars     == <<session, chartData, chartType, fu, fuInst, uploads, ci,
                 ciInst, chats, srvSessions, last>>
serviceVars == <<store, reply>>
chartVars   == <<props, view>>

-----------------------------------------------------------------------------
(* Bounds of the model. *)

MaxPendingUploads == 2   \* uploads that may be awaiting a result at once
MaxSessions       == 2   \* sessions the service issues before it refuses
MaxMessages       == 4   \* a ChatInterface takes no new question beyond this

-----------------------------------------------------------------------------
(* Values shared by the components. *)

Null    == [null |-> TRUE]       \* null / undefined / an absent field
NullStr == "<null>"              \* null where a string is expected

Last(s)      == s[Len(s)]
Remove(s, i) == SubSeq(s, 1, i - 1) \o SubSeq(s, i + 1, Len(s))

\* A thrown value: an Error with a message, or something that is no Error.
Thrown == { [isError |-> TRUE, message |-> "Network Error"],
            [isError |-> FALSE, message |-> NullStr] }

\* What axios throws when the service refuses an upload.
Refused == [isError |-> TRUE, message |-> "Request failed with status code 400"]

-----------------------------------------------------------------------------
(* Strings as character sequences. *)

RECURSIVE split(_, _)
\* String.prototype.split(sep) for a one-character separator: the pieces
\* between the separators, always at least one piece.
split(s, sep) ==
    IF \A i \in 1..Len(s) : s[i] # sep
    THEN <<s>>
    ELSE LET i == CHOOSE k \in 1..Len(s) :
                      s[k] = sep /\ \A j \in 1..(k - 1) : s[j] # sep
         IN <<SubSeq(s, 1, i - 1)>> \o split(SubSeq(s, i + 1, Len(s)), sep)

lowerChar(c) ==
    CASE c = "C" -> "c" [] c = "S" -> "s" [] c = "V" -> "v"
      [] c = "X" -> "x" [] c = "L" -> "l" [] c = "P" -> "p"
      [] c = "D" -> "d" [] c = "F" -> "f" [] c = "A" -> "a"
      [] OTHER -> c

toLowerCase(s) == [i \in 1..Len(s) |-> lowerChar(s[i])]

isSpace(c) == c = " "

RECURSIVE trim(_)
\* String.prototype.trim(): white space removed from both ends.
trim(s) ==
    IF s = <<>> THEN s
    ELSE IF isSpace(s[1]) THEN trim(Tail(s))
    ELSE IF isSpace(s[Len(s)]) THEN trim(SubSeq(s, 1, Len(s) - 1))
    ELSE s

-----------------------------------------------------------------------------
(* FileUpload: validateFile. *)

MAX_FILE_SIZE == 10 * 1024 * 1024

ALLOWED_EXTENSIONS ==
    << <<".", "c", "s", "v">>, <<".", "x", "l", "s", "x">>, <<".", "x", "l", "s">> >>

includes(arr, x) == \E i \in 1..Len(arr) : arr[i] = x

InvalidTypeMsg == "Invalid file type. Please upload .csv, .xlsx, .xls"
TooLargeMsg    == "File too large. Maximum size is 10MB"

\* const ext = '.' + file.name.split('.').pop()?.toLowerCase()
extOf(file) == <<".">> \o toLowerCase(Last(split(file.name, ".")))

validateFile(file) ==
    IF ~includes(ALLOWED_EXTENSIONS, extOf(file))
    THEN [valid |-> FALSE, error |-> InvalidTypeMsg]
    ELSE IF file.size > MAX_FILE_SIZE
    THEN [valid |-> FALSE, error |-> TooLargeMsg]
    ELSE [valid |-> TRUE, error |-> NullStr]

\* The files a user can hand to the page.
FileNames ==
    { <<"a", ".", "c", "s", "v">>,                 \* a.csv
      <<"a", ".", "C", "S", "V">>,                 \* a.CSV
      <<"a", ".", "x", "l", "s", "x">>,            \* a.xlsx
      <<"a", ".", "X", "l", "s">>,                 \* a.Xls
      <<"a", ".", "p", "d", "f">>,                 \* a.pdf
      <<"a", ".", "c", "s", "v", ".", "p", "d", "f">>,   \* a.csv.pdf
      <<"a", ".", "b", ".", "c", "s", "v">>,       \* a.b.csv
      <<"a", ".">>,                                \* a.
      <<"d", "a", "t", "a">>,                      \* data
      <<"c", "s", "v">>,                           \* csv
      <<"X", "L", "S">> }                          \* XLS

FileSizes == {1, MAX_FILE_SIZE, MAX_FILE_SIZE + 1}

\* Every name with a small size, and two names with the sizes at the limit.
Files ==
    { f \in [name : FileNames, size : FileSizes] :
        \/ f.size = 1
        \/ f.name \in { <<"a", ".", "c", "s", "v">>, <<"a", ".", "p", "d", "f">> } }

\* The two files the chat model uploads.
FewFiles == { [name |-> <<"a", ".", "c", "s", "v">>, size |-> 1],
              [name |-> <<"a", ".", "p", "d", "f">>, size |-> 1] }


-----------------------------------------------------------------------------
(* The upload endpoint of the service, from its contract: a file is taken  *)
(* when its extension is one of .csv, .xlsx, .xls and its size is at most  *)
(* 10 MiB; a session is created only then.                                 *)

hasExtension(name) == \E i \in 1..Len(name) : name[i] = "."

\* The extension of a name: the text from its last dot on, in lower case.
extensionOf(name) ==
    LET i == CHOOSE k \in 1..Len(name) :
                 name[k] = "." /\ \A j \in (k + 1)..Len(name) : name[j] # "."
    IN toLowerCase(SubSeq(name, i, Len(name)))

uploadAllowed(file) ==
    /\ hasExtension(file.name)
    /\ includes(ALLOWED_EXTENSIONS, extensionOf(file.name))
    /\ file.size <= 10 * 1024 * 1024

\* The UploadResponse for a file taken as session sid.
uploadResponse(file, sid) ==
    [success |-> TRUE, session_id |-> sid,
     file_info |-> [filename |-> file.name, file_size |-> file.size]]

\* A 200 answer that reports no success and carries no file_info.
uploadUnsuccessful ==
    [success |-> FALSE, session_id |-> 0, file_info |-> Null]

-----------------------------------------------------------------------------
(* App. *)

FuInit == [isUploading |-> FALSE, error |-> NullStr, selectedFile |-> Null]

Greeting == "Hello! I've loaded your data."

CiInit == [messages  |-> << [role |-> "assistant", content |-> Greeting] >>,
           input     |-> <<>>,
           isLoading |-> FALSE]

\* setSession(next) and the mounting it causes: App renders FileUpload
\* while session is null and ChatInterface otherwise.  A component that
\* stays mounted keeps its state (fuNext, ciNext); one that is mounted
\* anew starts from its initial state as a new instance.
setSession(next, fuNext, ciNext) ==
    /\ session' = next
    /\ fu' = IF session = Null /\ next = Null THEN fuNext ELSE FuInit
    /\ fuInst' = IF session # Null /\ next = Null THEN fuInst + 1 ELSE fuInst
    /\ ci' = IF session # Null /\ next # Null THEN ciNext ELSE CiInit
    /\ ciInst' = IF session = Null /\ next # Null THEN ciInst + 1 ELSE ciInst

handleFileUploaded(data, fuNext, ciNext) ==
    /\ setSession(data, fuNext, ciNext)
    /\ chartData' = Null
    /\ chartType' = "none"

handleChartUpdate(data, type) ==
    /\ chartData' = data
    /\ chartType' = type

\* The "New File" button, rendered while a session is set.
handleReset ==
    /\ session # Null
    /\ setSession(Null, fu, ci)
    /\ chartData' = Null
    /\ chartType' = "none"
    /\ last' = [op |-> "handleReset", arg |-> Null, calls |-> {}]
    /\ UNCHANGED <<uploads, chats, srvSessions>>
    /\ UNCHANGED <<serviceVars, chartVars>>

-----------------------------------------------------------------------------
(* FileUpload. *)

fuMounted == session = Null

\* handleFile up to its await: validation, then the request is sent.
handleFile(file) ==
    LET validation == validateFile(file) IN
    IF ~validation.valid
    THEN /\ fu' = [fu EXCEPT !.error = validation.error]
         /\ last' = [op |-> "handleFile", arg |-> file, calls |-> {}]
         /\ UNCHANGED uploads
    ELSE /\ Len(uploads) < MaxPendingUploads
         /\ fu' = [fu EXCEPT !.error = NullStr, !.selectedFile = file,
                             !.isUploading = TRUE]
         /\ uploads' = Append(uploads, [file |-> file, inst |-> fuInst])
         /\ last' = [op |-> "handleFile", arg |-> file,
                     calls |-> {[fn |-> "uploadFile", arg |-> file]}]

\* onDrop of the upload zone; the zone is never disabled.
handleDrop(file) ==
    /\ fuMounted
    /\ handleFile(file)
    /\ UNCHANGED <<session, chartData, chartType, fuInst, ci, ciInst, chats,
                   srvSessions>>
    /\ UNCHANGED <<serviceVars, chartVars>>

\* onChange of the file input, which is disabled while isUploading.
handleFileSelect(file) ==
    /\ fuMounted
    /\ ~fu.isUploading
    /\ handleFile(file)
    /\ UNCHANGED <<session, chartData, chartType, fuInst, ci, ciInst, chats,
                   srvSessions>>
    /\ UNCHANGED <<serviceVars, chartVars>>

\* A state update of FileUpload reaches the instance that started the
\* upload only while that instance is mounted.
fuAlive(u) == fuMounted /\ u.inst = fuInst

\* handleFile after its await, the request answered: the try block and
\* the finally block.
uploadAnswered(i, response) ==
    LET u     == uploads[i]
        fuFin == IF fuAlive(u) THEN [fu EXCEPT !.isUploading = FALSE] ELSE fu
    IN
    /\ uploads' = Remove(uploads, i)
    /\ IF response.success /\ response.file_info # Null
       THEN LET data == [sessionId |-> response.session_id,
                         filename  |-> response.file_info.filename]
            IN /\ handleFileUploaded(data, fuFin, ci)
               /\ last' = [op |-> "uploadAnswered", arg |-> u.file,
                           calls |-> {[fn |-> "onFileUploaded", arg |-> data]}]
       ELSE /\ fu' = fuFin
            /\ last' = [op |-> "uploadAnswered", arg |-> u.file, calls |-> {}]
            /\ UNCHANGED <<session, chartData, chartType, fuInst, ci, ciInst>>

\* The service takes the file, creates a session and answers.
uploadResolved(i) ==
    /\ i \in 1..Len(uploads)
    /\ uploadAllowed(uploads[i].file)
    /\ Cardinality(srvSessions) < MaxSessions
    /\ LET sid == Cardinality(srvSessions) + 1 IN
       /\ srvSessions' = srvSessions \cup {sid}
       /\ uploadAnswered(i, uploadResponse(uploads[i].file, sid))
    /\ UNCHANGED chats
    /\ UNCHANGED <<serviceVars, chartVars>>

\* The service answers without success: no session, no file_info.
uploadUnsucceeded(i) ==
    /\ i \in 1..Len(uploads)
    /\ uploadAnswered(i, uploadUnsuccessful)
    /\ UNCHANGED <<chats, srvSessions>>
    /\ UNCHANGED <<serviceVars, chartVars>>

\* handleFile after its await, the request failed (the service refused the
\* file, or the transport failed): the catch block and the finally block.
uploadRejected(i, err) ==
    /\ i \in 1..Len(uploads)
    /\ err = Refused => ~uploadAllowed(uploads[i].file)
    /\ LET u       == uploads[i]
           message == IF err.isError THEN err.message ELSE "Failed to upload file"
       IN /\ uploads' = Remove(uploads, i)
          /\ fu' = IF fuAlive(u)
                   THEN [fu EXCEPT !.error = message, !.selectedFile = Null,
                                   !.isUploading = FALSE]
                   ELSE fu
          /\ last' = [op |-> "uploadRejected", arg |-> u.file, calls |-> {}]
    /\ UNCHANGED <<session, chartData, chartType, fuInst, ci, ciInst, chats,
                   srvSessions>>
    /\ UNCHANGED <<serviceVars, chartVars>>


-----------------------------------------------------------------------------
(* The chat pipeline of the service, from its contract: Planner Agent,     *)
(* Executor Agent and Response Assembler.                                  *)

Visualizations == {"bar", "line", "pie", "scatter", "none"}

\* The chart payloads of the chat model: one single-series chart.
FewCharts == { [labels |-> <<"East">>, values |-> <<1>>] }

FallbackAnswer == "Sorry, I could not process your question."

\* What the Planner returns: a Plan, or PlanParseError.
PlannerOutcomes ==
    [ok : {TRUE}, visualization : Visualizations, error : {NullStr}]
        \cup {[ok |-> FALSE, visualization |-> "none", error |-> "PlanParseError"]}

\* What the Executor returns for a plan: an answer with a chart, an answer
\* without one (also when the plan asked for a chart and the result could
\* not be shaped into one), or ExecutionError.
ExecutorOutcomes(plan, charts) ==
    {[ok |-> TRUE, answer |-> "answer", chartData |-> Null, error |-> NullStr],
     [ok |-> FALSE, answer |-> NullStr, chartData |-> Null,
      error |-> "ExecutionError"]}
        \cup IF plan.visualization = "none" THEN {}
             ELSE [ok : {TRUE}, answer : {"answer"}, chartData : charts,
                   error : {NullStr}]

\* chart_type of the response: "none" exactly when there is no chart_data.
assembleChartType(plan, out) ==
    IF out.chartData = Null THEN "none" ELSE plan.visualization

\* The Chat Response of a turn that planned and executed.
assemble(plan, out) ==
    [success    |-> TRUE,
     answer     |-> out.answer,
     chart_data |-> out.chartData,
     chart_type |-> assembleChartType(plan, out),
     error      |-> NullStr]

\* The Chat Response of a turn whose planning or execution failed.
failureResponse(error) ==
    [success    |-> FALSE,
     answer     |-> FallbackAnswer,
     chart_data |-> Null,
     chart_type |-> "none",
     error      |-> error]

\* The Chat Response the pipeline gives for a planner and executor outcome.
respond(plan, out) ==
    IF ~plan.ok THEN failureResponse(plan.error)
    ELSE IF ~out.ok THEN failureResponse(out.error)
    ELSE assemble(plan, out)

\* Every Chat Response the service can send.
ChatResponses(charts) ==
    UNION { { respond(plan, out) : out \in ExecutorOutcomes(plan, charts) } :
            plan \in PlannerOutcomes }

-----------------------------------------------------------------------------
(* ChatInterface. *)

ciMounted == session # Null

\* What the user can have in the input field.
Inputs == { <<>>, <<" ">>, <<" ", "q">> }

\* onChange of the input and onClick of a suggestion chip, all disabled
\* while isLoading.
setInput(value) ==
    /\ ciMounted
    /\ ~ci.isLoading
    /\ ci' = [ci EXCEPT !.input = value]
    /\ last' = [op |-> "setInput", arg |-> Null, calls |-> {}]
    /\ UNCHANGED <<session, chartData, chartType, fu, fuInst, uploads, ciInst,
                   chats, srvSessions>>
    /\ UNCHANGED <<serviceVars, chartVars>>

submitBlocked_Never(input, isLoading) == FALSE

\* if (!input.trim() || isLoading) return
submitBlocked(input, isLoading) == trim(input) = <<>> \/ isLoading

\* handleSubmit up to its await.
handleSubmit ==
    /\ ciMounted
    /\ IF submitBlocked(ci.input, ci.isLoading)
       THEN /\ last' = [op |-> "handleSubmit", arg |-> Null, calls |-> {}]
            /\ UNCHANGED <<ci, chats>>
       ELSE LET request == [session_id |-> session.sessionId,
                            question   |-> ci.input]
            IN /\ Len(ci.messages) < MaxMessages
               /\ ci' = [ci EXCEPT
                           !.messages = Append(@, [role    |-> "user",
                                                   content |-> ci.input]),
                           !.input = <<>>,
                           !.isLoading = TRUE]
               /\ chats' = Append(chats, [inst       |-> ciInst,
                                          session_id |-> request.session_id,
                                          question   |-> request.question])
               /\ last' = [op |-> "handleSubmit", arg |-> Null,
                           calls |-> {[fn |-> "chat", arg |-> request]}]
    /\ UNCHANGED <<session, chartData, chartType, fu, fuInst, uploads, ciInst,
                   srvSessions>>
    /\ UNCHANGED <<serviceVars, chartVars>>

\* A state update of ChatInterface reaches the instance that sent the
\* request only while that instance is mounted.
ciAlive(r) == ciMounted /\ r.inst = ciInst

shouldUpdateChart_Always(response) == TRUE

shouldUpdateChart_Negated(response) ==
    ~(response.chart_data # Null /\ response.chart_type # "none")

\* if (response.chart_data && response.chart_type !== 'none')
shouldUpdateChart(response) ==
    response.chart_data # Null /\ response.chart_type # "none"

settled_StillLoading(state, content) ==
    [state EXCEPT !.messages = Append(@, [role |-> "assistant",
                                          content |-> content])]

settled_NoMessage(state, content) == [state EXCEPT !.isLoading = FALSE]

\* setMessages(prev => [...prev, message]) then setIsLoading(false).
settled(state, content) ==
    [state EXCEPT !.messages = Append(@, [role |-> "assistant",
                                          content |-> content]),
                  !.isLoading = FALSE]

\* handleSubmit after its await, the request answered: the try block and
\* the finally block.
chatAnswered(i, response) ==
    /\ i \in 1..Len(chats)
    /\ LET r == chats[i] IN
       /\ chats' = Remove(chats, i)
       /\ ci' = IF ciAlive(r) THEN settled(ci, response.answer) ELSE ci
       /\ IF shouldUpdateChart(response)
          THEN /\ handleChartUpdate(response.chart_data, response.chart_type)
               /\ last' = [op |-> "chatAnswered",
                           arg |-> [request |-> r, response |-> response],
                           calls |-> {[fn |-> "onChartUpdate",
                                       arg |-> [data |-> response.chart_data,
                                                type |-> response.chart_type]]}]
          ELSE /\ UNCHANGED <<chartData, chartType>>
               /\ last' = [op |-> "chatAnswered",
                           arg |-> [request |-> r, response |-> response],
                           calls |-> {}]
    /\ UNCHANGED <<session, fu, fuInst, uploads, ciInst, srvSessions>>
    /\ UNCHANGED <<serviceVars, chartVars>>

\* err instanceof Error ? err.message : 'An error occurred. Please try again.'
errorContent(err) ==
    IF err.isError THEN err.message ELSE "An error occurred. Please try again."

\* handleSubmit after its await, the request failed: the catch block and
\* the finally block.
chatRejected(i, err) ==
    /\ i \in 1..Len(chats)
    /\ LET r == chats[i] IN
       /\ chats' = Remove(chats, i)
       /\ ci' = IF ciAlive(r) THEN settled(ci, errorContent(err)) ELSE ci
       /\ last' = [op |-> "chatRejected",
                   arg |-> [request |-> r, error |-> err], calls |-> {}]
    /\ UNCHANGED <<session, chartData, chartType, fu, fuInst, uploads, ciInst,
                   srvSessions>>
    /\ UNCHANGED <<serviceVars, chartVars>>

-----------------------------------------------------------------------------
(* The client as a whole. *)

ServiceIdle == [sessions |-> [sid \in {} |-> Null], issued |-> 0]
ReplyIdle   == [op |-> "none"]
PropsIdle   == [data |-> Null, type |-> "none"]
ViewIdle    == [rendered |-> FALSE]

AppInit ==
    /\ session = Null
    /\ chartData = Null
    /\ chartType = "none"
    /\ fu = FuInit
    /\ fuInst = 1
    /\ uploads = <<>>
    /\ ci = CiInit
    /\ ciInst = 0
    /\ chats = <<>>
    /\ srvSessions = {}
    /\ last = [op |-> "init", arg |-> Null, calls |-> {}]

Init ==
    /\ AppInit
    /\ store = ServiceIdle
    /\ reply = ReplyIdle
    /\ props = PropsIdle
    /\ view = ViewIdle

Next ==
    \/ \E file \in FewFiles : handleDrop(file)
    \/ \E file \in FewFiles : handleFileSelect(file)
    \/ \E i \in 1..MaxPendingUploads : uploadResolved(i)
    \/ \E i \in 1..MaxPendingUploads : uploadUnsucceeded(i)
    \/ \E i \in 1..MaxPendingUploads, err \in Thrown \cup {Refused} :
           uploadRejected(i, err)
    \/ handleReset
    \/ \E value \in Inputs : setInput(value)
    \/ handleSubmit
    \/ \E i \in 1..Len(chats), response \in ChatResponses(FewCharts) :
           chatAnswered(i, response)
    \/ \E i \in 1..Len(chats), err \in Thrown : chatRejected(i, err)

Spec == Init /\ [][Next]_vars

\* The upload page alone, with every file of Files.
NextUpload ==
    \/ \E file \in Files : handleDrop(file)
    \/ \E file \in Files : handleFileSelect(file)
    \/ \E i \in 1..MaxPendingUploads : uploadResolved(i)
    \/ \E i \in 1..MaxPendingUploads : uploadUnsucceeded(i)
    \/ \E i \in 1..MaxPendingUploads, err \in Thrown \cup {Refused} :
           uploadRejected(i, err)
    \/ handleReset

SpecUpload == Init /\ [][NextUpload]_vars


-----------------------------------------------------------------------------
(* ChartDisplay.  A JavaScript value in a row is a tagged record, so that  *)
(* a label, a number and undefined can stand in the same field; a row is a *)
(* function from its keys.                                                 *)

MaxLabels == 2   \* labels of a chart
MaxSeries == 2   \* additional series of a chart

str(s)    == [str |-> s]
num(n)    == [num |-> n]
Undefined == [undefined |-> TRUE]

\* arr[index] for a 0-based index: undefined beyond the end.
at(arr, index) ==
    IF index + 1 \in 1..Len(arr) THEN num(arr[index + 1]) ELSE Undefined

CategoryNames == <<"East", "West", "North", "South">>
SeriesNames   == {"Profit", "Sales", "name"}

\* Sequences without a repeated element.
distinct(seq) == \A i, j \in 1..Len(seq) : i # j => seq[i] # seq[j]

\* The additional series the Executor builds over n labels: one entry per
\* additional numeric column, named by the column, data aligned to labels.
SeriesLists(n) ==
    UNION { { sl \in [1..k -> [name : SeriesNames, data : [1..n -> {3, 4}]]] :
                distinct([i \in 1..k |-> sl[i].name]) } : k \in 0..MaxSeries }

\* The ChartData the Executor produces: values and every series as long as
\* labels.  additional_series is an optional field: a chart has it or not.
ExecutorCharts ==
    UNION { [labels : {SubSeq(CategoryNames, 1, n)},
             values : [1..n -> {1, 2}]]
              \cup
            [labels : {SubSeq(CategoryNames, 1, n)},
             values : [1..n -> {1, 2}],
             additional_series : SeriesLists(n)] :
            n \in 0..MaxLabels }

\* The types App hands to ChartDisplay: it renders none for 'none'.
ShownTypes == Visualizations \ {"none"}

\* data?.field is set (neither undefined nor null).
has(data, field) == data # Null /\ field \in DOMAIN data

\* const chartData = useMemo(...)
chartDataRows(data) ==
    IF ~has(data, "labels") \/ ~has(data, "values") THEN <<>>
    ELSE [i \in 1..Len(data.labels) |->
            [name  |-> str(data.labels[i]),
             value |-> at(data.values, i - 1),
             index |-> num(i - 1)]]

RECURSIVE forEachSeries(_, _, _)
\* additional_series.forEach(series => { item[series.name] = series.data[index] })
forEachSeries(item, series, index) ==
    IF series = <<>> THEN item
    ELSE forEachSeries((Head(series).name :> at(Head(series).data, index)) @@ item,
                       Tail(series), index)

\* const multiSeriesData = useMemo(...), where it is not null.
multiSeriesRows(data) ==
    [i \in 1..Len(data.labels) |->
        forEachSeries([name |-> str(data.labels[i])],
                      data.additional_series, i - 1)]

\* if (!data?.additional_series) return null
multiSeriesIsNull(data) == ~has(data, "additional_series")

\* The chart element renderChart returns: its kind, the rows given to it
\* and the dataKeys of the series drawn from them.
renderChart(data, type) ==
    IF type \in {"bar", "line"}
    THEN IF ~multiSeriesIsNull(data)
         THEN [kind |-> type, rows |-> multiSeriesRows(data),
               series |-> [i \in 1..Len(data.additional_series) |->
                             data.additional_series[i].name]]
         ELSE [kind |-> type, rows |-> chartDataRows(data),
               series |-> <<"value">>]
    ELSE IF type = "pie"
    THEN [kind |-> "pie", rows |-> chartDataRows(data), series |-> <<"value">>]
    ELSE IF type = "scatter"
    THEN [kind |-> "scatter", rows |-> chartDataRows(data), series |-> <<>>]
    ELSE [kind |-> "unsupported", rows |-> <<>>, series |-> <<>>]

\* One render of ChartDisplay for its props: the two memoized row lists
\* (multiSeriesData only where it is not null) and the element returned.
display(data, type) ==
    LET chart == IF Len(chartDataRows(data)) = 0
                 THEN [kind |-> "empty", rows |-> <<>>, series |-> <<>>]
                 ELSE renderChart(data, type)
    IN IF multiSeriesIsNull(data)
       THEN [rendered |-> TRUE, chartData |-> chartDataRows(data),
             chart |-> chart]
       ELSE [rendered |-> TRUE, chartData |-> chartDataRows(data),
             multiSeriesData |-> multiSeriesRows(data), chart |-> chart]

\* ChartDisplay renders its props.
render ==
    /\ props.data # Null
    /\ ~view.rendered
    /\ view' = display(props.data, props.type)
    /\ UNCHANGED <<props, appVars, serviceVars>>

\* App shows a chart the Executor produced, of a type other than 'none'.
InitChart ==
    /\ AppInit
    /\ store = ServiceIdle
    /\ reply = ReplyIdle
    /\ props \in [data : ExecutorCharts, type : ShownTypes]
    /\ view = ViewIdle

NextChart == render

SpecChart == InitChart /\ [][NextChart]_vars

-----------------------------------------------------------------------------
(* The service, from its contract: the Session Store and the chat, upload  *)
(* and reset endpoints over it.  Requests on one session are serialized,   *)
(* so each request is one step.                                            *)

MaxTurns == 8   \* turns the store holds over all its sessions

HISTORY_WINDOW == 5

Questions == {"q1"}

live(st) == DOMAIN st.sessions

\* create(datasetHandle) -> sessionId: a new id, never one issued before.
create(st, dataset) ==
    LET sid == st.issued + 1 IN
    [sessions |-> (sid :> [dataset |-> dataset, history |-> <<>>]) @@ st.sessions,
     issued   |-> sid]

\* appendTurn(sessionId, turn)
appendTurn(st, sid, turn) ==
    [st EXCEPT !.sessions[sid].history = Append(@, turn)]

recentHistory_Oldest(st, sid, n) ==
    LET h == st.sessions[sid].history IN
    IF Len(h) <= n THEN h ELSE SubSeq(h, 1, n)

\* recentHistory(sessionId, n): the last n turns, oldest first.
recentHistory(st, sid, n) ==
    LET h == st.sessions[sid].history IN
    IF Len(h) <= n THEN h ELSE SubSeq(h, Len(h) - n + 1, Len(h))

reset_All(st, sid) == [st EXCEPT !.sessions = [s \in {} |-> Null]]

\* reset(sessionId): the session, its dataset and its history are gone.
reset(st, sid) ==
    [st EXCEPT !.sessions = [s \in DOMAIN @ \ {sid} |-> @[s]]]

record_Both(st, sid, question, response) ==
    appendTurn(appendTurn(st, sid, [role |-> "user", content |-> question]),
               sid, [role |-> "assistant", content |-> response.answer])

\* The Response Assembler's update of the history: the user's question,
\* and the assistant's answer unless the turn failed.
record(st, sid, question, response) ==
    LET asked == appendTurn(st, sid, [role |-> "user", content |-> question])
    IN IF response.success
       THEN appendTurn(asked, sid,
                       [role |-> "assistant", content |-> response.answer])
       ELSE asked

totalTurns(st) ==
    LET RECURSIVE sum(_)
        sum(S) == IF S = {} THEN 0
                  ELSE LET s == CHOOSE x \in S : TRUE
                       IN Len(st.sessions[s].history) + sum(S \ {s})
    IN sum(live(st))

\* POST /api/upload of a file the service takes.
serviceUpload ==
    /\ store.issued < MaxSessions
    /\ store' = create(store, "dataset")
    /\ reply' = [op |-> "upload", session_id |-> store.issued + 1,
                 result |-> "ok"]
    /\ UNCHANGED <<appVars, chartVars>>

\* POST /api/chat: not-found for an id that is not live; otherwise the
\* Planner is given the recent history, the plan is executed, and the
\* Response Assembler answers and records the turn.
serviceChat(sid, question, plan, out) ==
    IF sid \notin live(store)
    THEN /\ reply' = [op |-> "chat", session_id |-> sid, result |-> "NotFound"]
         /\ UNCHANGED store
         /\ UNCHANGED <<appVars, chartVars>>
    ELSE /\ store' = record(store, sid, question, respond(plan, out))
         /\ totalTurns(store') <= MaxTurns
         /\ reply' = [op |-> "chat", session_id |-> sid, result |-> "answered",
                      question |-> question,
                      context  |-> recentHistory(store, sid, HISTORY_WINDOW),
                      failed   |-> ~plan.ok \/ ~out.ok,
                      response |-> respond(plan, out)]
         /\ UNCHANGED <<appVars, chartVars>>

\* POST /api/reset: not-found for an id that is not live.
serviceReset(sid) ==
    IF sid \notin live(store)
    THEN /\ reply' = [op |-> "reset", session_id |-> sid, result |-> "NotFound"]
         /\ UNCHANGED store
         /\ UNCHANGED <<appVars, chartVars>>
    ELSE /\ store' = reset(store, sid)
         /\ reply' = [op |-> "reset", session_id |-> sid, result |-> "ok"]
         /\ UNCHANGED <<appVars, chartVars>>

NextService ==
    \/ serviceUpload
    \/ \E sid \in 1..MaxSessions, question \in Questions,
          plan \in PlannerOutcomes :
         \E out \in ExecutorOutcomes(plan, FewCharts) :
            serviceChat(sid, question, plan, out)
    \/ \E sid \in 1..MaxSessions : serviceReset(sid)

SpecService == Init /\ [][NextService]_vars

-----------------------------------------------------------------------------
(* Properties. *)

onChartUpdateCalls == { c \in last.calls : c.fn = "onChartUpdate" }

\* C1: every Chat Response has chart_type "none" exactly when it has no
\* chart_data, and handleSubmit calls onChartUpdate for a response exactly
\* when the response carries chart_data, then with the response's chart
\* and a chart_type other than "none".
C1_ChartTypeMatchesChartData ==
    last.op = "chatAnswered" =>
        LET response == last.arg.response IN
        /\ (response.chart_type = "none") <=> (response.chart_data = Null)
        /\ (onChartUpdateCalls # {}) <=> (response.chart_data # Null)
        /\ \A c \in onChartUpdateCalls :
              /\ c.arg.type # "none"
              /\ c.arg = [data |-> response.chart_data,
                          type |-> response.chart_type]
              /\ chartData = response.chart_data
              /\ chartType = response.chart_type

\* A response with a bar chart has been handed to App.
C1_Witness ==
    /\ last.op = "chatAnswered"
    /\ onChartUpdateCalls # {}
    /\ chartType = "bar"
    /\ chartData # Null

rowsPairLabels(data, rows) ==
    /\ Len(rows) = Len(data.labels)
    /\ \A i \in 1..Len(rows) : rows[i].name = str(data.labels[i])

noUndefined(rows) ==
    \A i \in 1..Len(rows) : \A k \in DOMAIN rows[i] : rows[i][k] # Undefined

\* C2: for every ChartData that reaches ChartDisplay, values and every
\* additional series are as long as labels, and the rows built are one per
\* label in label order, row i pairing labels[i] with values[i] (chartData)
\* and with series.data[i] of every additional series (multiSeriesData),
\* no row carrying undefined.
C2_RowsPairLabelsWithValues ==
    view.rendered =>
        LET data == props.data IN
        /\ Len(data.values) = Len(data.labels)
        /\ rowsPairLabels(data, view.chartData)
        /\ \A i \in 1..Len(view.chartData) :
              view.chartData[i].value = num(data.values[i])
        /\ noUndefined(view.chartData)
        /\ has(data, "additional_series") =>
              /\ \A k \in 1..Len(data.additional_series) :
                    Len(data.additional_series[k].data) = Len(data.labels)
              /\ rowsPairLabels(data, view.multiSeriesData)
              /\ \A i \in 1..Len(view.multiSeriesData) :
                    \A k \in 1..Len(data.additional_series) :
                       LET series == data.additional_series[k] IN
                       view.multiSeriesData[i][series.name] = num(series.data[i])
              /\ noUndefined(view.multiSeriesData)

\* C3: a file with a disallowed extension or a size over the limit given to
\* handleFile is rejected with an error shown, no request is sent, and no
\* session is created or set.
C3_InvalidFileNeverUploaded ==
    [][ (last'.op = "handleFile" /\ ~uploadAllowed(last'.arg)) =>
            /\ last'.calls = {}
            /\ fu'.error # NullStr
            /\ uploads' = uploads
            /\ session' = session
            /\ srvSessions' = srvSessions ]_vars

\* C4: validateFile accepts a file exactly when its name has an extension
\* that is one of .csv, .xlsx, .xls, compared without regard to case, and
\* its size is at most 10 MiB; a name without an extension is rejected.
C4_ValidateFileAcceptsExactly ==
    last.op = "handleFile" =>
        /\ validateFile(last.arg).valid <=>
              /\ hasExtension(last.arg.name)
              /\ extensionOf(last.arg.name) \in
                    { <<".", "c", "s", "v">>, <<".", "x", "l", "s", "x">>,
                      <<".", "x", "l", "s">> }
              /\ last.arg.size <= 10 * 1024 * 1024
        /\ (last.calls # {}) <=> validateFile(last.arg).valid

chatsOf(sid, inflight) ==
    { i \in 1..Len(inflight) : inflight[i].session_id = sid }

\* C5: a session never has more than one chat request in flight from the
\* client; handleSubmit sends a request only when no request is unsettled
\* and the input is not blank, so each request of a session is sent after
\* the previous one has been answered or has failed.
C5_OneChatInFlightPerSession ==
    /\ [](\A i, j \in 1..Len(chats) :
             chats[i].session_id = chats[j].session_id => i = j)
    /\ [][ Len(chats') > Len(chats) =>
              /\ ~ci.isLoading
              /\ trim(ci.input) # <<>>
              /\ chatsOf(Last(chats').session_id, chats) = {}
              /\ chats' = Append(chats, Last(chats')) ]_vars

\* The second question of a session is in flight, the first one settled.
C5_Witness ==
    /\ ciMounted
    /\ Len(ci.messages) = 4
    /\ ci.messages[3].role = "assistant"
    /\ \E i \in 1..Len(chats) :
          ciAlive(chats[i]) /\ chats[i].session_id = session.sessionId

\* C6: when planning or execution fails in a chat turn, the caller gets a
\* Chat Response with success false, error set and the fallback answer;
\* the history gains exactly the user turn of the request and no assistant
\* turn; the session stays live.
C6_FailedTurnKeepsUserTurn ==
    [][ (reply'.op = "chat" /\ reply'.result = "answered" /\ reply'.failed) =>
            LET sid == reply'.session_id IN
            /\ reply'.response.success = FALSE
            /\ reply'.response.error # NullStr
            /\ reply'.response.answer = FallbackAnswer
            /\ sid \in live(store')
            /\ store'.sessions[sid].history =
                  store.sessions[sid].history
                     \o << [role |-> "user", content |-> reply'.question] >>
            /\ store'.sessions[sid].dataset = store.sessions[sid].dataset ]_vars

\* A request answered with success on a session whose turn before failed.
C6_Witness ==
    /\ reply.op = "chat"
    /\ reply.result = "answered"
    /\ ~reply.failed
    /\ LET h == store.sessions[reply.session_id].history IN
       /\ Len(h) >= 3
       /\ h[Len(h) - 2].role = "user"
       /\ h[Len(h) - 1].role = "user"
       /\ h[Len(h)].role = "assistant"

\* C7: the history context handed to the Planner has at most 5 turns, the
\* most recent turns of the session in oldest-first order; older turns
\* stay in the history.
C7_ContextIsLastFiveTurns ==
    [][ (reply'.op = "chat" /\ reply'.result = "answered") =>
            LET h   == store.sessions[reply'.session_id].history
                ctx == reply'.context
            IN /\ Len(ctx) <= 5
               /\ Len(ctx) = IF Len(h) < 5 THEN Len(h) ELSE 5
               /\ \A k \in 1..Len(ctx) : ctx[k] = h[Len(h) - Len(ctx) + k]
               /\ SubSeq(store'.sessions[reply'.session_id].history, 1, Len(h)) = h
       ]_vars

\* A request planned with 5 turns of context out of a longer history.
C7_Witness ==
    /\ reply.op = "chat"
    /\ reply.result = "answered"
    /\ Len(reply.context) = 5
    /\ Len(store.sessions[reply.session_id].history)
          - (IF reply.failed THEN 1 ELSE 2) > 5

\* C8: reset of a live session removes its dataset and history; a second
\* reset of the same id reports not-found and changes nothing; no reset
\* changes another session, and a reset session does not come back.
C8_ResetTwiceIsSafe ==
    /\ [][ reply'.op = "reset" =>
              LET sid == reply'.session_id IN
              /\ IF sid \in live(store)
                 THEN reply'.result = "ok" /\ sid \notin live(store')
                 ELSE reply'.result = "NotFound" /\ store' = store
              /\ live(store') \subseteq live(store)
              /\ \A s \in live(store) \ {sid} :
                    /\ s \in live(store')
                    /\ store'.sessions[s] = store.sessions[s] ]_vars
    /\ [][ \A sid \in 1..store.issued :
              sid \notin live(store) => sid \notin live(store') ]_vars

\* A second reset of a session answered not-found, another session live
\* with its history.
C8_Witness ==
    /\ reply.op = "reset"
    /\ reply.result = "NotFound"
    /\ reply.session_id <= store.issued
    /\ \E s \in live(store) : Len(store.sessions[s].history) > 0

chatInFlight == \E i \in 1..Len(chats) : ciAlive(chats[i])

sameChatInterface == ciMounted /\ ciMounted' /\ ciInst' = ciInst

\* C9: the message list of ChatInterface is append-only and alternates
\* roles from the assistant greeting on: with no request in flight it has
\* odd length and ends with an assistant message, with a request in flight
\* it ends with the user's question; a question is followed by exactly one
\* assistant message, the response's answer when the request is answered
\* and the error text when it fails.
C9_MessagesAlternate ==
    /\ [](ciMounted =>
            /\ ci.messages[1] = [role |-> "assistant", content |-> Greeting]
            /\ \A k \in 1..Len(ci.messages) :
                  ci.messages[k].role =
                     IF k % 2 = 1 THEN "assistant" ELSE "user"
            /\ ~chatInFlight => Len(ci.messages) % 2 = 1
            /\ chatInFlight =>
                  /\ Len(ci.messages) % 2 = 0
                  /\ \A i \in 1..Len(chats) : ciAlive(chats[i]) =>
                        Last(ci.messages).content = chats[i].question)
    /\ [][ sameChatInterface =>
              /\ Len(ci'.messages) >= Len(ci.messages)
              /\ SubSeq(ci'.messages, 1, Len(ci.messages)) = ci.messages
              /\ Len(ci'.messages) <= Len(ci.messages) + 1 ]_vars
    /\ [][ (last'.op = "chatAnswered" /\ ciAlive(last'.arg.request)) =>
              ci'.messages = Append(ci.messages,
                                    [role    |-> "assistant",
                                     content |-> last'.arg.response.answer])
       ]_vars
    /\ [][ (last'.op = "chatRejected" /\ ciAlive(last'.arg.request)) =>
              ci'.messages =
                 Append(ci.messages,
                        [role    |-> "assistant",
                         content |-> IF last'.arg.error.isError
                                     THEN last'.arg.error.message
                                     ELSE "An error occurred. Please try again."])
       ]_vars

\* Two questions asked: one answered, one failed with the error's text.
C9_Witness ==
    /\ ciMounted
    /\ ~chatInFlight
    /\ Len(ci.messages) = 5
    /\ ci.messages[3].content = "answer"
    /\ ci.messages[5].content = "Network Error"

\* C10: a chat request that settles (success response, success:false
\* response or thrown error) leaves the ChatInterface that sent it with
\* isLoading false and one more assistant message that can be rendered;
\* isLoading is never true without a request in flight to end it.
C10_SettledRequestEndsLoading ==
    /\ [][ (last'.op \in {"chatAnswered", "chatRejected"}
              /\ ciAlive(last'.arg.request)) =>
              /\ ci.isLoading
              /\ ~ci'.isLoading
              /\ Len(ci'.messages) = Len(ci.messages) + 1
              /\ Last(ci'.messages).role = "assistant"
              /\ Last(ci'.messages).content # NullStr ]_vars
    /\ [](ciMounted => (ci.isLoading <=> chatInFlight))

\* A success:false response has been shown and the input is enabled again.
C10_Witness ==
    /\ last.op = "chatAnswered"
    /\ ~last.arg.response.success
    /\ ciAlive(last.arg.request)
    /\ ~ci.isLoading
    /\ Last(ci.messages).content = FallbackAnswer

\* The series key is drawn and its rows carry the numbers of data.
drawsSeries(chart, key, data) ==
    /\ \E k \in 1..Len(chart.series) : chart.series[k] = key
    /\ Len(chart.rows) = Len(data)
    /\ \A i \in 1..Len(data) :
          key \in DOMAIN chart.rows[i] /\ chart.rows[i][key] = num(data[i])

\* C11: a bar or line chart draws every numeric series of the ChartData,
\* the primary values and each additional series under its name, aligned
\* to labels; with labels not empty it never draws no series, also when
\* additional_series is present or is an empty list.
C11_EverySeriesDrawn ==
    (view.rendered /\ props.type \in {"bar", "line"}
        /\ Len(props.data.labels) > 0) =>
        LET data == props.data IN
        /\ view.chart.kind = props.type
        /\ view.chart.series # <<>>
        /\ drawsSeries(view.chart, "value", data.values)
        /\ has(data, "additional_series") =>
              \A k \in 1..Len(data.additional_series) :
                 drawsSeries(view.chart, data.additional_series[k].name,
                             data.additional_series[k].data)

\* C12: the chart App shows comes from a response to a question asked in
\* the current session: after handleReset and the upload of a new file, the
\* response to a request that the ChatInterface of the earlier session
\* sent never calls onChartUpdate, so chartData and chartType of App are
\* never set from it.
C12_ChartFromCurrentSession ==
    (last.op = "chatAnswered" /\ session # Null
        /\ last.arg.request.inst # ciInst
        /\ last.arg.request.session_id # session.sessionId) =>
        onChartUpdateCalls = {}

onFileUploadedCalls == { c \in last.calls : c.fn = "onFileUploaded" }

\* C13: while an upload is in progress FileUpload starts no further
\* upload, by the file input or by drop; so at most one upload request is
\* in flight, and onFileUploaded is never called by a later upload while a
\* session is already set.
C13_OneUploadAtATime ==
    /\ [](Len(uploads) <= 1)
    /\ [][ (fuMounted /\ fu.isUploading /\ last'.op = "handleFile") =>
              uploads' = uploads ]_vars
    /\ [][ (last'.op = "uploadAnswered" /\ session # Null) =>
              onFileUploadedCalls' = {} ]_vars

noChart(response) ==
    response.chart_data = Null \/ response.chart_type = "none"

\* C14: a chat turn that yields no chart (a response without chart_data or
\* with chart_type "none", or a failed request) leaves chartData and
\* chartType of App as they were; they go back to null and "none" only in
\* handleFileUploaded and handleReset.
C14_NoChartTurnKeepsChart ==
    /\ [][ (last'.op = "chatAnswered" /\ noChart(last'.arg.response)) =>
              /\ chartData' = chartData
              /\ chartType' = chartType
              /\ \A c \in last'.calls : c.fn # "onChartUpdate" ]_vars
    /\ [][ last'.op = "chatRejected" =>
              chartData' = chartData /\ chartType' = chartType ]_vars
    /\ [][ ((chartData # Null /\ chartData' = Null)
               \/ (chartType # "none" /\ chartType' = "none")) =>
              \/ last'.op = "handleReset"
              \/ /\ last'.op = "uploadAnswered"
                 /\ \E c \in last'.calls : c.fn = "onFileUploaded" ]_vars

\* A chart is on display and the turn after it was answered without one.
C14_Witness ==
    /\ last.op = "chatAnswered"
    /\ noChart(last.arg.response)
    /\ ciAlive(last.arg.request)
    /\ Len(ci.messages) = 5
    /\ chartData # Null
    /\ chartType = "bar"

=============================================================================
